---- MODULE Spec2Model ----
(***************************************************************************)
(* State-machine model of the tutorial scripts tutorial_3_solution.py,     *)
(* tutorial_4a.py and tutorial_4b.py: the HHCell class (three versions),   *)
(* the Pop class of tutorial_4b and the module-level wiring of             *)
(* tutorial_3_solution.                                                    *)
(*                                                                         *)
(* Python objects live on heaps (sequences indexed by object identity):    *)
(* cells, synapses, netcons, iclamps, pops.  A reference is the index of   *)
(* the object, 0 is "no object".  An engine object stays alive exactly as  *)
(* long as the Python program holds a reference to it (CPython reference   *)
(* counting); the heaps keep the record of a released object with          *)
(* alive = FALSE.  Physical quantities are scaled to integers: positions   *)
(* along a section in tenths, the stimulus amplitude in tenths of nA,      *)
(* connection weights in thousandths, normalised ranges in hundredths.     *)
(* The membrane parameters (Ra, cm, conductances) are literals that no     *)
(* operation reads back; of the biophysics only the inserted mechanism of  *)
(* each section is represented.                                            *)
(***************************************************************************)
EXTENDS Integers, Sequences, FiniteSets, TLC

VARIABLES
    script,    \* which file's classes are loaded: "t3", "t4a" or "t4b"
    cells,     \* heap of HHCell objects
    synapses,  \* heap of ExpSyn objects
    netcons,   \* heap of NetCon objects
    iclamps,   \* heap of IClamp objects
    pops,      \* heap of Pop objects
    build,     \* the running Pop.create_cells call, or Idle
    rng,       \* state of the process-wide numpy generator
    t3,        \* tutorial_3_solution's module-level names
    figs,      \* number of pyplot figures created
    ran,       \* h.run() has been executed
    err,       \* the uncaught exception that ended the script, or "none"
    last,      \* the last call made and how it returned
    calls      \* number of calls made on a finished population and its members

vars == <<script, cells, synapses, netcons, iclamps, pops, build, rng, t3,
          figs, ran, err, last, calls>>

(* ------------------------------ bounds --------------------------------- *)
MaxCells == 2      \* HHCell objects created directly by the driver
MaxSyn == 2        \* ExpSyn objects created by the driver's create_synapse
MaxNetCons == 1    \* NetCon objects created by connect2pre
MaxStims == 3      \* IClamp objects created
MaxConnects == 2   \* dend.connect calls on one cell
MaxFigs == 1       \* pyplot figures created
MaxPopCells == 3   \* cells created by Pop constructions
MaxCalls == 2      \* calls made on a finished population and its members

Scripts == {"t3", "t4a", "t4b"}
Delays == {10, 20}          \* stimulus delays used by the scripts (ms)
\* <<delay, weight>> of a connection: connect2pre's defaults (2 ms, 1) and
\* tutorial_3_solution's excitatory connection (1 ms, 0.005)
NcParams == {<<2, 1000>>, <<1, 5>>}
\* normalised ranges in hundredths: the default [0, 1] and the scripts' own
XRanges == {<<0, 100>>, <<20, 100>>}
YRanges == {<<0, 100>>, <<20, 100>>, <<0, 33>>}
Positions == {<<5, 5>>, <<50, 50>>}

(* --------------------------- program literals -------------------------- *)
StimLoc == 10      \* self.dend(1.0)
StimAmp == 3       \* 0.3 nA
StimDur == 1       \* 1 ms
SomaEnd == 10      \* self.soma(1)
Mid == 5           \* position 0.5
DefaultTau == 2    \* tau=2
DefaultE == 0      \* e=0
SizeX == 100       \* Pop.size[0]
SizeY == 100       \* Pop.size[1]
Seed == 111        \* np.random.seed(111)

None == 0
NoPos == <<>>
Idle == <<>>

Ret(op, c, arg, ok) == [op |-> op, cell |-> c, arg |-> arg, ok |-> ok]

(* ------------------------------- HHCell -------------------------------- *)
\* A Section freshly allocated by h.Section has one segment, no parent and no
\* inserted mechanism.
create_sections(cell) ==
    [cell EXCEPT !.attached = None, !.nseg = 1,
                 !.somaMech = "none", !.dendMech = "none"]

\* self.dend.connect(self.soma(1)): the dendrite's proximal end is attached
\* to the soma at position 1; any earlier attachment is replaced.
build_topology(cell) ==
    [cell EXCEPT !.attached = SomaEnd, !.connects = @ + 1]

\* define_geometry as it would be if it attached the dendrite as well.
define_geometry_connect(s, cell) ==
    [cell EXCEPT !.nseg = IF s = "t4a" THEN 10 ELSE 9,
                 !.attached = SomaEnd, !.connects = @ + 1]

Nseg == [t3 |-> 9, t4a |-> 10, t4b |-> 9]

define_geometry(s, cell) == [cell EXCEPT !.nseg = Nseg[s]]

define_biophysics(cell) ==
    [cell EXCEPT !.somaMech = "hh", !.dendMech = "pas"]

\* __init__ as it would be if it created the recording vectors itself.
Blank_recording ==
    [attached |-> None, connects |-> 0, nseg |-> 0,
     somaMech |-> "none", dendMech |-> "none",
     synlist |-> <<>>, nclist |-> <<>>,
     stim |-> None, rec |-> "empty", pos |-> NoPos]

\* The attributes a cell has before __init__ runs its four steps.  synlist is
\* set by tutorial_4a and tutorial_4b, nclist by tutorial_4b only; a missing
\* list attribute is the empty list here and is never read by that version.
\* The recording vectors and the position are attributes __init__ does not
\* create.
Blank ==
    [attached |-> None, connects |-> 0, nseg |-> 0,
     somaMech |-> "none", dendMech |-> "none",
     synlist |-> <<>>, nclist |-> <<>>,
     stim |-> None, rec |-> "unset", pos |-> NoPos]

HHCell_init(s) ==
    define_biophysics(define_geometry(s, build_topology(create_sections(Blank))))

\* Three new, empty Vectors bound to soma(0.5), dend(0.5) and t.
set_recording(cell) == [cell EXCEPT !.rec = "empty"]

set_position(cell, x, y) == [cell EXCEPT !.pos = <<x, y>>]

\* create_synapse as it would be if it stored loc as the cell's position.
create_synapse_moves(st, c, loc, tau, e) ==
    [cells |-> [st.cells EXCEPT ![c].synlist = Append(@, Len(st.synapses) + 1),
                                ![c].pos = <<loc, loc>>],
     synapses |-> Append(st.synapses, [cell |-> c, loc |-> loc, tau |-> tau, e |-> e])]

\* syn = h.ExpSyn(self.dend(loc)); self.synlist.append(syn), on the pair of
\* heaps st = [cells, synapses].
create_synapse(st, c, loc, tau, e) ==
    [cells |-> [st.cells EXCEPT ![c].synlist = Append(@, Len(st.synapses) + 1)],
     synapses |-> Append(st.synapses, [cell |-> c, loc |-> loc, tau |-> tau, e |-> e])]

\* cell = HHCell()
NewCell ==
    /\ cells' = Append(cells, HHCell_init(script))
    /\ last' = Ret("HHCell", Len(cells) + 1, 0, TRUE)
    /\ UNCHANGED <<script, synapses, netcons, iclamps, pops, build, rng,
                   figs, ran, err>>

\* A method that changes the attributes of the one cell only.
OnCell(c, op, arg, new) ==
    /\ cells' = [cells EXCEPT ![c] = new]
    /\ last' = Ret(op, c, arg, TRUE)
    /\ UNCHANGED <<script, synapses, netcons, iclamps, pops, build, rng,
                   figs, ran, err>>

Call_create_sections(c) == OnCell(c, "create_sections", 0, create_sections(cells[c]))

Call_build_topology(c) == OnCell(c, "build_topology", 0, build_topology(cells[c]))

Call_define_geometry(c) ==
    OnCell(c, "define_geometry", 0, define_geometry(script, cells[c]))

Call_define_biophysics(c) ==
    OnCell(c, "define_biophysics", 0, define_biophysics(cells[c]))

Call_set_recording(c) == OnCell(c, "set_recording", 0, set_recording(cells[c]))

Call_set_position(c, x, y) == OnCell(c, "set_position", 0, set_position(cells[c], x, y))

Call_create_synapse(c, loc, tau, e) ==
    /\ script \in {"t4a", "t4b"}
    /\ LET st == create_synapse([cells |-> cells, synapses |-> synapses], c, loc, tau, e)
       IN /\ cells' = st.cells
          /\ synapses' = st.synapses
    /\ last' = Ret("create_synapse", c, 0, TRUE)
    /\ UNCHANGED <<script, netcons, iclamps, pops, build, rng, figs, ran, err>>

\* The IClamp objects that are alive and sit on cell c.
StimsOn(c) == {k \in DOMAIN iclamps : iclamps[k].alive /\ iclamps[k].cell = c}

\* add_current_stim as it would be if the earlier IClamp stayed referenced
\* (stimuli kept in a list).
add_current_stim_keep(c, delay) ==
    /\ iclamps' = Append(iclamps, [cell |-> c, loc |-> StimLoc, amp |-> StimAmp,
                                   delay |-> delay, dur |-> StimDur, alive |-> TRUE])
    /\ cells' = [cells EXCEPT ![c].stim = Len(iclamps) + 1]
    /\ last' = Ret("add_current_stim", c, delay, TRUE)
    /\ UNCHANGED <<script, synapses, netcons, pops, build, rng, figs, ran, err>>

\* self.stim = h.IClamp(self.dend(1.0)); amp, delay, dur.  Rebinding
\* self.stim releases the only reference to the previous IClamp.
add_current_stim(c, delay) ==
    /\ LET new == [cell |-> c, loc |-> StimLoc, amp |-> StimAmp,
                   delay |-> delay, dur |-> StimDur, alive |-> TRUE]
           old == cells[c].stim
           released == IF old = None THEN iclamps
                       ELSE [iclamps EXCEPT ![old].alive = FALSE]
       IN /\ iclamps' = Append(released, new)
          /\ cells' = [cells EXCEPT ![c].stim = Len(iclamps) + 1]
    /\ last' = Ret("add_current_stim", c, delay, TRUE)
    /\ UNCHANGED <<script, synapses, netcons, pops, build, rng, figs, ran, err>>

\* plt.figure() comes first; reading self.t_vec then raises AttributeError
\* when set_recording never created it, and no figure handle is returned.
plot_voltage(c) ==
    /\ figs' = figs + 1
    /\ IF cells[c].rec = "unset"
       THEN /\ err' = "AttributeError"
            /\ last' = Ret("plot_voltage", c, 0, FALSE)
       ELSE /\ err' = err
            /\ last' = Ret("plot_voltage", c, 0, TRUE)
    /\ UNCHANGED <<script, cells, synapses, netcons, iclamps, pops, build,
                   rng, ran>>

\* The bounds test off by one at the upper end.
InRange_inclusive(n, i) == -n <= i /\ i <= n

\* Python list subscript: list[i] is defined for -len <= i < len, a negative
\* i counting from the end; anything else raises IndexError.
InRange(n, i) == -n <= i /\ i < n

PyPos(n, i) == IF i >= 0 THEN i + 1 ELSE n + i + 1

\* The subscript yielding the position in the list, not the element there.
Subscript_position(list, i) == IF i >= 0 THEN i + 1 ELSE Len(list) + i + 1

Subscript(list, i) ==
    IF PyPos(Len(list), i) \in DOMAIN list THEN list[PyPos(Len(list), i)] ELSE None

\* What becomes of the NetCon that connect2pre creates once the call has
\* returned: tutorial_4b appends it to self.nclist; tutorial_4a holds it in
\* the local nc only, so it is released on return.
Retains(s) == s = "t4b"

NetConsMade == {k \in DOMAIN netcons : netcons[k].pop = None}

connect2pre(c, preCell, synid, delay, weight) ==
    /\ script \in {"t4a", "t4b"}
    /\ IF InRange(Len(cells[c].synlist), synid)
       THEN LET nc == [pre |-> preCell, post |-> c,
                       target |-> Subscript(cells[c].synlist, synid),
                       delay |-> delay, weight |-> weight,
                       alive |-> Retains(script), pop |-> None, id |-> 0]
            IN /\ netcons' = Append(netcons, nc)
               /\ cells' = IF Retains(script)
                           THEN [cells EXCEPT ![c].nclist = Append(@, Len(netcons) + 1)]
                           ELSE cells
               /\ err' = err
               /\ last' = Ret("connect2pre", c, synid, TRUE)
       ELSE /\ err' = "IndexError"
            /\ last' = Ret("connect2pre", c, synid, FALSE)
            /\ UNCHANGED <<cells, netcons>>
    /\ UNCHANGED <<script, synapses, iclamps, pops, build, rng, figs, ran>>

\* h.init(); h.run(): every Vector bound by set_recording is cleared and then
\* filled with one run's samples.  Which cells spike is the engine's matter,
\* and so is whether a recording registered through a NetCon that has since
\* been released still logs: any set of the registered recordings may log.
\* spkid is kept as the set of ids it holds (spkt runs parallel to it).
Recordings == {k \in DOMAIN netcons : netcons[k].pop # None}

Run(logging) ==
    /\ pops' = [p \in DOMAIN pops |->
                  [pops[p] EXCEPT !.spkid =
                      {netcons[k].id : k \in {j \in logging : netcons[j].pop = p}}]]
    /\ cells' = [c \in DOMAIN cells |->
                   IF cells[c].rec = "unset" THEN cells[c]
                   ELSE [cells[c] EXCEPT !.rec = "filled"]]
    /\ ran' = TRUE
    /\ last' = Ret("run", 0, 0, TRUE)
    /\ UNCHANGED <<script, synapses, netcons, iclamps, build, rng, figs, err>>

(* --------------------------------- Pop --------------------------------- *)
\* numpy's generator is a deterministic state machine, seeded once at import
\* and advanced by every draw.  It is represented by a small full-period
\* linear congruential generator; a state s stands for the sample s / RngMod
\* of [0, 1).
RngMod == 16
RngMul == 5
RngInc == 3

seed(n) == n % RngMod

NextState(s) == (RngMul * s + RngInc) % RngMod

RECURSIVE Advance(_, _)
Advance(s, n) == IF n = 0 THEN s ELSE Advance(NextState(s), n - 1)

\* np.random.uniform(lo, hi, n) from generator state s: n successive samples,
\* each low + (high - low) * sample, rounded down to the integer grid.
uniform(lo, hi, n, s) ==
    [i \in 1..n |-> lo + ((hi - lo) * Advance(s, i)) \div RngMod]

\* create_cells as it would be with the y bounds taken from xNormRange.
Draw_sameaxis(s, numCells, xNormRange, yNormRange) ==
    LET xMin == (SizeX * xNormRange[1]) \div 100
        xMax == (SizeX * xNormRange[2]) \div 100
    IN [xPoss |-> uniform(xMin, xMax, numCells, s),
        yPoss |-> uniform(xMin, xMax, numCells, Advance(s, numCells)),
        rng |-> Advance(s, 2 * numCells)]

\* Lines 112-118 of create_cells: the two bounds of each axis from the
\* normalised range (hundredths), all x draws, then all y draws.
Draw(s, numCells, xNormRange, yNormRange) ==
    LET xMin == (SizeX * xNormRange[1]) \div 100
        xMax == (SizeX * xNormRange[2]) \div 100
        yMin == (SizeY * yNormRange[1]) \div 100
        yMax == (SizeY * yNormRange[2]) \div 100
    IN [xPoss |-> uniform(xMin, xMax, numCells, s),
        yPoss |-> uniform(yMin, yMax, numCells, Advance(s, numCells)),
        rng |-> Advance(s, 2 * numCells)]

\* The NetCon heap after the reference nc held is dropped.
Release(heap, nc) == IF nc = None THEN heap ELSE [heap EXCEPT ![nc].alive = FALSE]

\* The constructor as it would be if it seeded the generator itself.
Pop_init_reseed(numCells, xNormRange, yNormRange) ==
    /\ script = "t4b"
    /\ LET d == Draw(seed(Seed), numCells, xNormRange, yNormRange)
       IN /\ rng' = d.rng
          /\ build' = [pop |-> Len(pops) + 1, i |-> 0, n |-> numCells,
                       xPoss |-> d.xPoss, yPoss |-> d.yPoss, nc |-> None]
    /\ pops' = Append(pops, [cells |-> <<>>, spkid |-> {}, numCells |-> numCells,
                             xNormRange |-> xNormRange, yNormRange |-> yNormRange,
                             done |-> FALSE])
    /\ last' = Ret("Pop_init", Len(pops) + 1, numCells, TRUE)
    /\ UNCHANGED <<script, cells, synapses, netcons, iclamps, figs, ran, err>>

\* Pop(numCells, xNormRange, yNormRange) up to the loop of create_cells: two
\* new Vectors, self.cells = [], the coordinates of all cells drawn.
Pop_init(numCells, xNormRange, yNormRange) ==
    /\ script = "t4b"
    /\ LET d == Draw(rng, numCells, xNormRange, yNormRange)
       IN /\ rng' = d.rng
          /\ build' = [pop |-> Len(pops) + 1, i |-> 0, n |-> numCells,
                       xPoss |-> d.xPoss, yPoss |-> d.yPoss, nc |-> None]
    /\ pops' = Append(pops, [cells |-> <<>>, spkid |-> {}, numCells |-> numCells,
                             xNormRange |-> xNormRange, yNormRange |-> yNormRange,
                             done |-> FALSE])
    /\ last' = Ret("Pop_init", Len(pops) + 1, numCells, TRUE)
    /\ UNCHANGED <<script, cells, synapses, netcons, iclamps, figs, ran, err>>

\* One iteration of the loop of create_cells (lines 120-129).  Rebinding the
\* local nc releases the NetCon of the iteration before.  delay and weight
\* of the spike detector are never set by the program.
create_cells_step ==
    /\ build # Idle
    /\ build.i < build.n
    /\ LET new == Len(cells) + 1
           i == build.i
           st0 == [cells |-> Append(cells, set_recording(HHCell_init(script))),
                   synapses |-> synapses]
           st1 == create_synapse(st0, new, Mid, DefaultTau, DefaultE)
           nc == [pre |-> new, post |-> None, target |-> None,
                  delay |-> 0, weight |-> 0, alive |-> TRUE,
                  pop |-> build.pop, id |-> i]
       IN /\ cells' = [st1.cells EXCEPT
                         ![new] = set_position(@, build.xPoss[i + 1], build.yPoss[i + 1])]
          /\ synapses' = st1.synapses
          /\ netcons' = Append(Release(netcons, build.nc), nc)
          /\ pops' = [pops EXCEPT ![build.pop].cells = Append(@, new)]
          /\ build' = [build EXCEPT !.i = i + 1, !.nc = Len(netcons) + 1]
          /\ last' = Ret("create_cells", build.pop, i, TRUE)
    /\ UNCHANGED <<script, iclamps, rng, figs, ran, err>>

\* create_cells and the constructor return: the local nc goes out of scope.
create_cells_return ==
    /\ build # Idle
    /\ build.i = build.n
    /\ netcons' = Release(netcons, build.nc)
    /\ pops' = [pops EXCEPT ![build.pop].done = TRUE]
    /\ build' = Idle
    /\ last' = Ret("Pop", build.pop, build.n, TRUE)
    /\ UNCHANGED <<script, cells, synapses, iclamps, rng, figs, ran, err>>

\* plt.xlim on the current figure (pyplot makes one when there is none),
\* then a scatter of cell.x, cell.y of every member.
plot_net(p) ==
    /\ figs' = IF figs = 0 THEN 1 ELSE figs
    /\ last' = Ret("plot_net", p, 0, TRUE)
    /\ UNCHANGED <<script, cells, synapses, netcons, iclamps, pops, build,
                   rng, ran, err>>

plot_raster(p) ==
    /\ figs' = figs + 1
    /\ last' = Ret("plot_raster", p, 0, TRUE)
    /\ UNCHANGED <<script, cells, synapses, netcons, iclamps, pops, build,
                   rng, ran, err>>

(* ------------------- tutorial_3_solution, module level ------------------ *)
T3Names == [pc |-> 0, postCell |-> None, preCell1 |-> None, preCell2 |-> None,
            postSyn1 |-> None, pre1Conn |-> None, postSyn2 |-> None,
            pre2Conn |-> None]

\* name = h.ExpSyn(postCell.dend(0.5)); name.e = e; name.tau = 2
T3Syn(line, name, e) ==
    /\ synapses' = Append(synapses, [cell |-> t3.postCell, loc |-> Mid,
                                     tau |-> DefaultTau, e |-> e])
    /\ t3' = [t3 EXCEPT !.pc = @ + 1, ![name] = Len(synapses) + 1]
    /\ last' = Ret("t3", 0, line, TRUE)
    /\ UNCHANGED <<script, cells, netcons, iclamps, pops, build, rng, figs,
                   ran, err>>

\* name = h.NetCon(pre.soma(0.5)._ref_v, syn, sec=pre.soma); weight; delay.
\* The module-level name keeps the NetCon alive.
T3Conn(line, name, pre, syn, weight) ==
    /\ netcons' = Append(netcons, [pre |-> pre, post |-> t3.postCell, target |-> syn,
                                   delay |-> 1, weight |-> weight, alive |-> TRUE,
                                   pop |-> None, id |-> 0])
    /\ t3' = [t3 EXCEPT !.pc = @ + 1, ![name] = Len(netcons) + 1]
    /\ last' = Ret("t3", 0, line, TRUE)
    /\ UNCHANGED <<script, cells, synapses, iclamps, pops, build, rng, figs,
                   ran, err>>

T3New(name) == NewCell /\ t3' = [t3 EXCEPT !.pc = @ + 1, ![name] = Len(cells) + 1]

T3Then(A) == A /\ t3' = [t3 EXCEPT !.pc = @ + 1]

\* Lines 76-126, one statement group at a time.
T3Step ==
    /\ script = "t3"
    /\ err = "none"
    /\ UNCHANGED calls
    /\ CASE t3.pc = 0 -> T3New("postCell")
         [] t3.pc = 1 -> T3Then(Call_set_recording(t3.postCell))
         [] t3.pc = 2 -> T3New("preCell1")
         [] t3.pc = 3 -> T3Then(Call_set_recording(t3.preCell1))
         [] t3.pc = 4 -> T3Then(add_current_stim(t3.preCell1, 10))
         [] t3.pc = 5 -> T3New("preCell2")
         [] t3.pc = 6 -> T3Then(Call_set_recording(t3.preCell2))
         [] t3.pc = 7 -> T3Then(add_current_stim(t3.preCell2, 10))
         [] t3.pc = 8 -> T3Syn(89, "postSyn1", 0)
         [] t3.pc = 9 -> T3Conn(93, "pre1Conn", t3.preCell1, t3.postSyn1, 5)
         [] t3.pc = 10 -> T3Syn(110, "postSyn2", -80)
         [] t3.pc = 11 -> T3Conn(114, "pre2Conn", t3.preCell2, t3.postSyn2, 10)
         [] t3.pc = 12 -> T3Then(Run({}))
         [] t3.pc = 13 -> T3Then(plot_voltage(t3.postCell))
         [] OTHER -> FALSE

(* ---------------------------- specifications --------------------------- *)
Init ==
    /\ script \in Scripts
    /\ cells = <<>>
    /\ synapses = <<>>
    /\ netcons = <<>>
    /\ iclamps = <<>>
    /\ pops = <<>>
    /\ build = Idle
    /\ rng = seed(Seed)
    /\ t3 = T3Names
    /\ figs = 0
    /\ ran = FALSE
    /\ err = "none"
    /\ last = Ret("none", 0, 0, TRUE)
    /\ calls = 0

\* A call the driver makes: the script has not died, no constructor is
\* running, and no method rebinds a module-level name.
Drive(A) == err = "none" /\ build = Idle /\ A /\ UNCHANGED <<t3, calls>>

\* The same, counted.
Count(A) ==
    /\ err = "none" /\ build = Idle /\ calls < MaxCalls
    /\ A
    /\ calls' = calls + 1
    /\ UNCHANGED t3

SynIds == (0 - MaxSyn - 1) .. (MaxSyn + 1)
Made == DOMAIN cells

\* Current stimuli, in each of the three versions.
NextStim ==
    \/ Drive(Len(cells) < MaxCells /\ NewCell)
    \/ \E c \in Made, d \in Delays : Drive(Len(iclamps) < MaxStims /\ add_current_stim(c, d))
    \/ \E c \in Made : Drive(Call_set_recording(c))
    \/ Drive(Run({}))

SpecStim == Init /\ [][NextStim]_vars

\* Recording and plotting, in each of the three versions.
NextPlot ==
    \/ Drive(Len(cells) < MaxCells /\ NewCell)
    \/ \E c \in Made : Drive(Call_set_recording(c))
    \/ \E c \in Made : Drive(figs < MaxFigs /\ plot_voltage(c))
    \/ Drive(Run({}))

SpecPlot == Init /\ [][NextPlot]_vars

\* The construction steps of a cell, callable again on a constructed cell.
NextTopo ==
    \/ Drive(Len(cells) < MaxCells /\ NewCell)
    \/ \E c \in Made : Drive(Call_create_sections(c))
    \/ \E c \in Made : Drive(cells[c].connects < MaxConnects /\ Call_build_topology(c))
    \/ \E c \in Made : Drive(Call_define_geometry(c))
    \/ \E c \in Made : Drive(Call_define_biophysics(c))

SpecTopo == Init /\ [][NextTopo]_vars

\* Synapse creation and wiring by index (tutorial_4a and tutorial_4b).
NextWire ==
    \/ Drive(Len(cells) < MaxCells /\ NewCell)
    \/ \E c \in Made :
          Drive(Len(synapses) < MaxSyn /\ Call_create_synapse(c, Mid, DefaultTau, DefaultE))
    \/ \E c \in Made, p \in Made, i \in SynIds, dw \in NcParams :
          Drive(Cardinality(NetConsMade) < MaxNetCons /\ connect2pre(c, p, i, dw[1], dw[2]))
    \/ Drive(Run({}))

SpecWire == Init /\ [][NextWire]_vars

\* The number of cells the constructions so far have asked for.
RECURSIVE Requested(_)
Requested(k) == IF k = 0 THEN 0 ELSE pops[k].numCells + Requested(k - 1)

Construct(A) == err = "none" /\ A /\ UNCHANGED <<t3, calls>>

PopSizes == 1..MaxPopCells

\* Population construction and the run (tutorial_4b).
NextPop ==
    \/ \E n \in PopSizes, xr \in XRanges, yr \in YRanges :
          Drive(Requested(Len(pops)) + n <= MaxPopCells /\ Pop_init(n, xr, yr))
    \/ Construct(create_cells_step)
    \/ Construct(create_cells_return)
    \/ \E logging \in SUBSET Recordings : Drive(Run(logging))

SpecPop == Init /\ [][NextPop]_vars

\* Wiring in all three scripts: connect2pre, the population's spike
\* detectors, and tutorial_3_solution's module-level connections.
NextNet ==
    \/ Drive(script # "t3" /\ Len(cells) < MaxCells /\ NewCell)
    \/ \E c \in Made :
          Drive(Len(synapses) < MaxSyn /\ Call_create_synapse(c, Mid, DefaultTau, DefaultE))
    \/ \E c \in Made, i \in {0, 1} :
          Drive(Cardinality(NetConsMade) < MaxNetCons /\ connect2pre(c, 1, i, 2, 1000))
    \/ \E n \in PopSizes :
          Drive(pops = <<>> /\ Pop_init(n, <<0, 100>>, <<0, 100>>))
    \/ Construct(create_cells_step)
    \/ Construct(create_cells_return)
    \/ T3Step

SpecNet == Init /\ [][NextNet]_vars

\* One population and what can be done with it and its members afterwards.
NextOps ==
    \/ \E n \in PopSizes, yr \in YRanges :
          Drive(pops = <<>> /\ Pop_init(n, <<0, 100>>, yr))
    \/ Construct(create_cells_step)
    \/ Construct(create_cells_return)
    \/ \E c \in Made, xy \in Positions : Count(Call_set_position(c, xy[1], xy[2]))
    \/ \E c \in Made : Count(Call_create_synapse(c, Mid, DefaultTau, DefaultE))
    \/ \E c \in Made, i \in {0, 1} : Count(connect2pre(c, c, i, 2, 1000))
    \/ \E c \in Made, d \in Delays : Count(add_current_stim(c, d))
    \/ \E c \in Made : Count(Call_set_recording(c))
    \/ \E c \in Made : Count(plot_voltage(c))
    \/ \E p \in DOMAIN pops : Count(plot_net(p))
    \/ \E p \in DOMAIN pops : Count(plot_raster(p))
    \/ Count(Run(Recordings))

SpecOps == Init /\ [][NextOps]_vars

(* -------------------------------- claims ------------------------------- *)
Called(op) == last.op = op

NSyn(c) == Len(cells[c].synlist)

Elems(list) == {list[j] : j \in DOMAIN list}

\* C1 as stated: connect2pre(source_cell, synid) on a cell with n synapses
\* succeeds exactly when 0 <= synid < n, and fails with IndexError for every
\* other synid.
C1_OnlyNonNegative ==
    Called("connect2pre") =>
        /\ last.ok <=> (0 <= last.arg /\ last.arg < NSyn(last.cell))
        /\ ~last.ok => err = "IndexError"

\* C1 amended: connect2pre succeeds when 0 <= synid < n, and also when
\* -n <= synid < 0, where it wires to synlist[n + synid]; it fails with
\* IndexError exactly when synid >= n or synid < -n.
C1_PythonIndex ==
    Called("connect2pre") =>
        LET n == NSyn(last.cell)
            i == last.arg
        IN /\ (0 <= i /\ i < n) =>
                last.ok /\ netcons[Len(netcons)].target = cells[last.cell].synlist[i + 1]
           /\ (0 - n <= i /\ i < 0) =>
                last.ok /\ netcons[Len(netcons)].target = cells[last.cell].synlist[n + i + 1]
           /\ (i >= n \/ i < 0 - n) => ~last.ok /\ err = "IndexError"
           /\ last.ok => err = "none" /\ netcons[Len(netcons)].post = last.cell

\* synid = 1 on a cell with exactly one synapse has failed.
C1_Witness ==
    /\ Called("connect2pre") /\ last.arg = 1 /\ NSyn(last.cell) = 1
    /\ ~last.ok /\ err = "IndexError"

\* C2 as stated: every connection that exists has a target synapse, one
\* created on the post-synaptic cell, also the connections made during
\* population construction.
C2_EveryTarget ==
    \A k \in DOMAIN netcons :
        netcons[k].alive =>
            /\ netcons[k].target \in DOMAIN synapses
            /\ synapses[netcons[k].target].cell = netcons[k].post

\* C2 amended: every connection made by connect2pre or by the module-level
\* wiring of tutorial_3_solution has a target synapse that was already
\* created on the post-synaptic cell (for connect2pre, a member of its
\* synlist); the connections made during population construction have no
\* target at all.
C2_Targets ==
    \A k \in DOMAIN netcons :
        IF netcons[k].pop = None
        THEN /\ netcons[k].target \in DOMAIN synapses
             /\ synapses[netcons[k].target].cell = netcons[k].post
             /\ script # "t3" => netcons[k].target \in Elems(cells[netcons[k].post].synlist)
        ELSE netcons[k].target = None /\ netcons[k].post = None

\* connect2pre has wired a synapse while several synapses exist.
C2_Witness ==
    /\ Called("connect2pre") /\ last.ok
    /\ netcons[Len(netcons)].target # None
    /\ Len(synapses) > 1

\* C3: once Pop(numCells, ...) has returned the population holds numCells
\* cells in creation order, each with one synapse, and for every index i a
\* spike-detecting connection from cell i's soma that logs i into the
\* population's own buffers is still alive; spkid holds creation indices only.
C3_DetectorsAlive ==
    \A p \in DOMAIN pops :
        pops[p].done =>
            /\ Len(pops[p].cells) = pops[p].numCells
            /\ \A i \in DOMAIN pops[p].cells :
                 /\ NSyn(pops[p].cells[i]) = 1
                 /\ \E k \in DOMAIN netcons :
                      /\ netcons[k].alive
                      /\ netcons[k].pop = p
                      /\ netcons[k].id = i - 1
                      /\ netcons[k].pre = pops[p].cells[i]
            /\ pops[p].spkid \subseteq 0 .. (pops[p].numCells - 1)

\* C4: every member cell of a population lies within the population's
\* sub-range of the canvas, 100*xa <= x <= 100*xb and 100*ya <= y <= 100*yb
\* (ranges in hundredths), and a finished population has numCells members.
C4_InRange ==
    \A p \in DOMAIN pops :
        /\ pops[p].done => Len(pops[p].cells) = pops[p].numCells
        /\ \A i \in DOMAIN pops[p].cells :
             LET pos == cells[pops[p].cells[i]].pos
                 xr == pops[p].xNormRange
                 yr == pops[p].yNormRange
             IN /\ pos # NoPos
                /\ SizeX * xr[1] <= 100 * pos[1] /\ 100 * pos[1] <= SizeX * xr[2]
                /\ SizeY * yr[1] <= 100 * pos[2] /\ 100 * pos[2] <= SizeY * yr[2]

\* A finished population of several cells built with yNormRange = [0.2, 1].
C4_Witness ==
    \E p \in DOMAIN pops :
        /\ pops[p].done /\ pops[p].yNormRange = <<20, 100>>
        /\ Len(pops[p].cells) >= 2
        /\ \A i \in DOMAIN pops[p].cells : cells[pops[p].cells[i]].pos[2] \in 20..100

SameArgs(p, q) ==
    /\ pops[p].numCells = pops[q].numCells
    /\ pops[p].xNormRange = pops[q].xNormRange
    /\ pops[p].yNormRange = pops[q].yNormRange

\* C5 as stated: two constructions with the same arguments assign the same
\* coordinates at every creation index, whatever was constructed before.
C5_SameArgsSamePlaces ==
    \A p, q \in DOMAIN pops :
        (pops[p].done /\ pops[q].done /\ SameArgs(p, q)) =>
            \A i \in DOMAIN pops[p].cells :
                cells[pops[p].cells[i]].pos = cells[pops[q].cells[i]].pos

\* The coordinates the seed's sample stream yields for creation index i of
\* population p, after the 2 * numCells samples of each earlier population.
Expected(p, i) ==
    LET d == Draw(Advance(seed(Seed), 2 * Requested(p - 1)), pops[p].numCells,
                  pops[p].xNormRange, pops[p].yNormRange)
    IN <<d.xPoss[i], d.yPoss[i]>>

\* C5 amended: construction is deterministic in its arguments, the fixed
\* seed and the number of samples drawn before it: the generator is seeded
\* once and shared, so the coordinates of a population are those of the
\* seed's stream at the offset left by the populations constructed before.
C5_Stream ==
    \A p \in DOMAIN pops :
        \A i \in DOMAIN pops[p].cells :
            cells[pops[p].cells[i]].pos = Expected(p, i)

\* Two finished populations with the same arguments.
C5_Witness ==
    /\ Len(pops) >= 2 /\ pops[1].done /\ pops[2].done
    /\ SameArgs(1, 2)

\* C6: after add_current_stim calls a cell has exactly one live stimulus, at
\* the dendrite's distal end, with amplitude 0.3, duration 1 and the delay of
\* the last call; a cell never stimulated has none.
C6_OneStim ==
    \A c \in DOMAIN cells :
        IF cells[c].stim = None
        THEN StimsOn(c) = {}
        ELSE /\ StimsOn(c) = {cells[c].stim}
             /\ iclamps[cells[c].stim].loc = 10
             /\ iclamps[cells[c].stim].amp = 3
             /\ iclamps[cells[c].stim].dur = 1
             /\ (Called("add_current_stim") /\ last.cell = c) =>
                    iclamps[cells[c].stim].delay = last.arg

\* A second call on the same cell, with another delay, has returned.
C6_Witness ==
    /\ Called("add_current_stim")
    /\ \E k \in DOMAIN iclamps :
         /\ iclamps[k].cell = last.cell
         /\ ~iclamps[k].alive
         /\ iclamps[k].delay # last.arg

\* C7 as stated: plot_voltage on a cell whose set_recording was never called
\* completes without an error and returns the figure.
C7_NoError ==
    (Called("plot_voltage") /\ cells[last.cell].rec = "unset") =>
        last.ok /\ err = "none"

\* C7 amended: plot_voltage on a cell whose set_recording was never called
\* ends in an error state (AttributeError on the missing recording vectors,
\* after the figure was created) and returns no figure; on a cell whose
\* set_recording was called it completes and returns the figure.  The
\* constructor creates no recording vectors, set_recording creates empty ones.
C7_NeedsRecording ==
    /\ Called("HHCell") => cells[last.cell].rec = "unset"
    /\ Called("set_recording") => cells[last.cell].rec = "empty"
    /\ Called("plot_voltage") =>
          /\ figs > 0
          /\ cells[last.cell].rec = "unset" => ~last.ok /\ err = "AttributeError"
          /\ cells[last.cell].rec # "unset" => last.ok /\ err = "none"

\* plot_voltage has been called on a cell that never had set_recording.
C7_Witness ==
    Called("plot_voltage") /\ cells[last.cell].rec = "unset" /\ err = "AttributeError"

\* C8 as stated: in every reachable state the soma-dendrite connection of
\* every cell has been established exactly once.
C8_ExactlyOnce == \A c \in DOMAIN cells : cells[c].connects = 1

\* C8 amended: a cell leaves its constructor with the dendrite attached to
\* soma(1), established once; afterwards the connection is established again
\* by each direct call of build_topology, which nothing guards, and by no
\* other operation.
C8_OnlyBuildTopology ==
    [][/\ \A c \in DOMAIN cells' \ DOMAIN cells :
            cells'[c].attached = SomaEnd /\ cells'[c].connects = 1
       /\ \A c \in DOMAIN cells :
            cells'[c].connects # cells[c].connects =>
                /\ last'.op = "build_topology" /\ last'.cell = c
                /\ cells'[c].connects = cells[c].connects + 1
                /\ cells'[c].attached = SomaEnd]_vars

\* Another construction step was called again on a cell whose connection has
\* still been established once.
C8_Witness ==
    /\ Called("define_geometry")
    /\ cells[last.cell].connects = 1 /\ cells[last.cell].attached = SomaEnd

\* C9: every connection made by a successful connect2pre is retained by the
\* post-synaptic cell (alive, in its nclist) in every later state, in every
\* version of connect2pre.
C9_Retained ==
    \A k \in NetConsMade :
        /\ netcons[k].alive
        /\ k \in Elems(cells[netcons[k].post].nclist)

\* C10 as stated: once assigned, the position of a cell is changed by no
\* operation, set_position included.
C10_NeverMoves ==
    [][\A c \in DOMAIN cells : cells'[c].pos = cells[c].pos]_vars

\* C10 amended: every population member gets its position during
\* construction, and afterwards only a call of set_position on that cell
\* changes it; create_synapse, connect2pre, add_current_stim, set_recording,
\* the plots and the run leave it alone.
C10_OnlySetPosition ==
    /\ [](\A p \in DOMAIN pops : \A i \in DOMAIN pops[p].cells :
             cells[pops[p].cells[i]].pos # NoPos)
    /\ [][\A c \in DOMAIN cells :
             cells'[c].pos # cells[c].pos =>
                 last'.op = "set_position" /\ last'.cell = c]_vars

\* After calls on a finished population that end with the run, every member
\* is where construction put it.
C10_Witness ==
    /\ Called("run") /\ calls >= 2
    /\ Len(pops) = 1 /\ pops[1].done
    /\ \A i \in DOMAIN pops[1].cells : cells[pops[1].cells[i]].pos = Expected(1, i)

====
